---- MODULE Spec2Model ----
(***************************************************************************)
(* The /reconcile endpoint of app.py: a Flask handler, run in one thread   *)
(* per request (threaded=True), that validates an uploaded workbook and a  *)
(* JSON list of database records, outer-joins them on (id, reference) and  *)
(* classifies the join rows.                                               *)
(*                                                                         *)
(* A data frame is a record [columns, rows]; a row is a function from      *)
(* column names to cell values.  Cell values are integers; NaN is the      *)
(* missing value pandas puts where a cell or a JSON field is absent.       *)
(* Rows of the join carry, next to the visible row, the positions (li, ri) *)
(* of the workbook row and the database record they were taken from (the   *)
(* join's indexers; 0 where pandas has -1, "no row on this side").         *)
(* The join is pandas' DataFrame.merge as documented for how="outer": the  *)
(* union of the keys of both frames, sorted lexicographically, every       *)
(* pairing of the rows of a key, missing keys matching each other.         *)
(***************************************************************************)
EXTENDS Integers, Sequences, FiniteSets, TLC

VARIABLES pc, file, db_data, tmpdir, fs, df_excel, merged, response

vars == <<pc, file, db_data, tmpdir, fs, df_excel, merged, response>>

(* ---------------------------- bounds ---------------------------------- *)
NThreads == 2
MaxExcel == 2
MaxDb == 2

Threads == 1..NThreads
\* names tempfile.TemporaryDirectory can hand out
Dirs == 1..NThreads

(* ------------------------- program constants -------------------------- *)
REQUIRED_COLUMNS == {"id", "reference", "amount"}
FILE_ENGINES == {".xls", ".xlsx", ".xlsm"}
NaN == -1

(* --------------------------- input universe --------------------------- *)
\* Rows of an uploaded sheet (every sheet row has a cell, possibly empty,
\* under every column of the sheet).
ExcelRows ==
  { [id |-> 1, reference |-> 1,   amount |-> 100, note |-> 5],
    [id |-> 1, reference |-> 1,   amount |-> 150, note |-> 5],
    [id |-> 1, reference |-> 2,   amount |-> 100, note |-> 5],
    [id |-> 1, reference |-> 1,   amount |-> NaN, note |-> 5],
    [id |-> 2, reference |-> 1,   amount |-> 100, note |-> 5],
    [id |-> 2, reference |-> NaN, amount |-> NaN, note |-> 5] }

\* JSON objects of db_data; an object may lack a field.
DbRecords ==
  { [id |-> 1, reference |-> 1, amount |-> 100],
    [id |-> 1, reference |-> 2, amount |-> 100, note |-> 7],
    [id |-> 2, reference |-> 1, amount |-> 150],
    [id |-> 2, amount |-> 100],
    [id |-> 1, reference |-> 1],
    [id |-> 1, reference |-> 1, amount |-> 100, _merge |-> 7] }

SeqUpTo(S, n) == UNION { [1..k -> S] : k \in 0..n }

Restrict(f, S) == [c \in S |-> f[c]]

NoFile == [present |-> FALSE, ext |-> "", valid |-> FALSE, columns |-> {}, rows |-> <<>>]

Sheet(cols, rows) ==
  [present |-> TRUE, ext |-> ".xlsx", valid |-> TRUE, columns |-> cols,
   rows |-> [i \in 1..Len(rows) |-> Restrict(rows[i], cols)]]

\* request.files.get("file")
Files ==
  { Sheet(REQUIRED_COLUMNS \cup {"note"}, rows) : rows \in SeqUpTo(ExcelRows, MaxExcel) }
  \cup { Sheet(cols, rows) : cols \in {REQUIRED_COLUMNS, {"id", "reference"}},
                             rows \in SeqUpTo(ExcelRows, 1) }
  \cup { NoFile,
         [Sheet(REQUIRED_COLUMNS, <<>>) EXCEPT !.ext = ".csv"],
         [Sheet(REQUIRED_COLUMNS, <<>>) EXCEPT !.valid = FALSE] }

\* request.form.get("db_data"): absent or empty, not JSON, or a JSON list
DbData ==
  { [kind |-> "list", records |-> recs] : recs \in SeqUpTo(DbRecords, MaxDb) }
  \cup { [kind |-> k, records |-> <<>>] : k \in {"none", "badjson"} }

NoResponse == [status |-> 0, handled |-> TRUE, error |-> "", reconciled |-> <<>>, unreconciled |-> <<>>]
NoFrame == [columns |-> {}, rows |-> <<>>]

Error(status, msg) == [NoResponse EXCEPT !.status = status, !.error = msg]
\* an exception no except clause catches leaves the handler
Uncaught(msg) == [NoResponse EXCEPT !.status = 500, !.handled = FALSE, !.error = msg]

TypeOK ==
  /\ pc \in [Threads -> {"idle", "start", "parse", "save", "read", "reconcile", "done"}]
  /\ tmpdir \in [Threads -> Dirs \cup {0}]
  /\ DOMAIN fs \subseteq Dirs

Init ==
  /\ pc = [t \in Threads |-> IF t = 1 THEN "start" ELSE "idle"]
  /\ \E f \in Files, d \in DbData :
       /\ file = [t \in Threads |-> IF t = 1 THEN f ELSE NoFile]
       /\ db_data = [t \in Threads |-> IF t = 1 THEN d ELSE [kind |-> "none", records |-> <<>>]]
  /\ tmpdir = [t \in Threads |-> 0]
  /\ fs = << >>
  /\ df_excel = [t \in Threads |-> NoFrame]
  /\ merged = [t \in Threads |-> <<>>]
  /\ response = [t \in Threads |-> NoResponse]

Respond(t, r) ==
  /\ response' = [response EXCEPT ![t] = r]
  /\ pc' = [pc EXCEPT ![t] = "done"]

\* lines 41-50
Receive(t) ==
  /\ pc[t] = "start"
  /\ IF ~file[t].present THEN Respond(t, Error(400, "No file uploaded"))
     ELSE IF db_data[t].kind = "none"
          THEN Respond(t, Error(400, "Missing db_data. Expected JSON format."))
          ELSE pc' = [pc EXCEPT ![t] = "parse"] /\ UNCHANGED response
  /\ UNCHANGED <<file, db_data, tmpdir, fs, df_excel, merged>>

\* lines 52-60: json.loads, then the columns of the first record only
ParseDb(t) ==
  /\ pc[t] = "parse"
  /\ IF db_data[t].kind = "badjson"
     THEN Respond(t, Error(400, "Invalid JSON format for db_data"))
     ELSE IF db_data[t].records = <<>>
          \* db_data[0] raises IndexError; the try catches json.JSONDecodeError only
          THEN Respond(t, Uncaught("IndexError"))
          ELSE IF ~(REQUIRED_COLUMNS \subseteq DOMAIN db_data[t].records[1])
               THEN Respond(t, Error(400, "Invalid DB data format. Expected columns: id, reference, amount"))
               ELSE pc' = [pc EXCEPT ![t] = "save"] /\ UNCHANGED response
  /\ UNCHANGED <<file, db_data, tmpdir, fs, df_excel, merged>>

\* mutant: a fixed upload path, whatever is there
mkdtemp_shared(files) == Dirs

\* tempfile.TemporaryDirectory(): mkdtemp creates a directory that did not exist
mkdtemp(files) == Dirs \ DOMAIN files

\* leaving the with block removes the directory and what is in it
cleanup(files, d) == Restrict(files, DOMAIN files \ {d})

\* lines 66-75
SaveFile(t) ==
  /\ pc[t] = "save"
  /\ \E d \in mkdtemp(fs) :
       /\ tmpdir' = [tmpdir EXCEPT ![t] = d]
       /\ fs' = [x \in DOMAIN fs \cup {d} |-> IF x = d THEN file[t] ELSE fs[x]]
  /\ pc' = [pc EXCEPT ![t] = "read"]
  /\ UNCHANGED <<file, db_data, df_excel, merged, response>>

\* lines 78-97
ReadExcel(t) ==
  /\ pc[t] = "read"
  /\ IF file[t].ext \notin FILE_ENGINES
     THEN /\ Respond(t, Error(400, "Unsupported file format"))
          /\ fs' = cleanup(fs, tmpdir[t])
          /\ UNCHANGED df_excel
     ELSE IF tmpdir[t] \notin DOMAIN fs
          THEN /\ Respond(t, Error(400, "An error occurred while reading the Excel file"))
               /\ fs' = cleanup(fs, tmpdir[t])
               /\ UNCHANGED df_excel
          ELSE IF ~fs[tmpdir[t]].valid
               THEN /\ Respond(t, Error(400, "The file is not a valid Excel file or is corrupted."))
                    /\ fs' = cleanup(fs, tmpdir[t])
                    /\ UNCHANGED df_excel
               ELSE /\ df_excel' = [df_excel EXCEPT ![t] =
                                      [columns |-> fs[tmpdir[t]].columns, rows |-> fs[tmpdir[t]].rows]]
                    /\ pc' = [pc EXCEPT ![t] = "reconcile"]
                    /\ UNCHANGED <<fs, response>>
  /\ UNCHANGED <<file, db_data, tmpdir, merged>>

(* ------------------ the reconciliation, lines 99-149 ------------------ *)
\* mutant: the workbook's columns are all kept
KeepRequired_all(df) == df

\* df_excel[list(REQUIRED_COLUMNS)]
KeepRequired(df) ==
  [columns |-> REQUIRED_COLUMNS,
   rows |-> [i \in 1..Len(df.rows) |-> Restrict(df.rows[i], REQUIRED_COLUMNS)]]

\* pd.DataFrame(records): the columns are the fields of all records, a
\* record's missing field is NaN
DataFrame(records) ==
  LET cols == UNION { DOMAIN records[i] : i \in 1..Len(records) }
  IN [columns |-> cols,
      rows |-> [i \in 1..Len(records) |->
                 [c \in cols |-> IF c \in DOMAIN records[i] THEN records[i][c] ELSE NaN]]]

\* on=["id", "reference"]; keys compare equal when both are missing
KeyOf(row) == <<row["id"], row["reference"]>>

\* mutant: the keys sorted in descending order
Before_descending(a, b) == b # NaN /\ (a = NaN \/ b < a)

\* the order of a key column under the outer join's sort: missing values last
Before(a, b) == a # NaN /\ (b = NaN \/ a < b)
KeyLess(k1, k2) == Before(k1[1], k2[1]) \/ (k1[1] = k2[1] /\ Before(k1[2], k2[2]))

\* how="outer": the union of the keys of both frames, sorted lexicographically
RECURSIVE SortKeys(_)
SortKeys(S) ==
  IF S = {} THEN <<>>
  ELSE LET m == CHOOSE k \in S : \A o \in S \ {k} : KeyLess(k, o)
       IN <<m>> \o SortKeys(S \ {m})

\* mutant: how="left", the keys of the left frame only
JoinKeys_left(left, right) == SortKeys({ KeyOf(left[i]) : i \in 1..Len(left) })

JoinKeys(left, right) ==
  SortKeys({ KeyOf(left[i]) : i \in 1..Len(left) } \cup { KeyOf(right[j]) : j \in 1..Len(right) })

\* the positions of the rows of a frame that carry key k, ascending
Positions(rows, k) ==
  SelectSeq([i \in 1..Len(rows) |-> i], LAMBDA i : KeyOf(rows[i]) = k)

\* mutant: a key's left rows are paired with its first right row only
JoinGroup_firstMatch(L, R) ==
  IF R = <<>> THEN [n \in 1..Len(L) |-> <<L[n], 0>>]
  ELSE IF L = <<>> THEN [n \in 1..Len(R) |-> <<0, R[n]>>]
  ELSE [n \in 1..Len(L) |-> <<L[n], R[1]>>]

\* the indexer pairs of one key: every pairing of its rows when both frames
\* have the key (left-major), else its rows paired with "no row"
JoinGroup(L, R) ==
  IF R = <<>> THEN [n \in 1..Len(L) |-> <<L[n], 0>>]
  ELSE IF L = <<>> THEN [n \in 1..Len(R) |-> <<0, R[n]>>]
  ELSE [n \in 1..(Len(L) * Len(R)) |->
          <<L[((n - 1) \div Len(R)) + 1], R[((n - 1) % Len(R)) + 1]>>]

RECURSIVE JoinIndexers(_, _, _)
JoinIndexers(keys, left, right) ==
  IF keys = <<>> THEN <<>>
  ELSE JoinGroup(Positions(left, Head(keys)), Positions(right, Head(keys)))
         \o JoinIndexers(Tail(keys), left, right)

\* indicator=True
Indicator(l, r) == IF l > 0 /\ r > 0 THEN "both" ELSE IF l > 0 THEN "left_only" ELSE "right_only"

\* the columns of the join: the keys, the overlapping column amount under
\* both suffixes, the other columns of the right frame, the indicator
MergedColumns(left, right) ==
  {"id", "reference", "amount_excel", "amount_db", "_merge"}
    \cup (left.columns \ REQUIRED_COLUMNS) \cup (right.columns \ REQUIRED_COLUMNS)

MergedRow(left, right, l, r) ==
  [c \in MergedColumns(left, right) |->
     IF c = "_merge" THEN Indicator(l, r)
     ELSE IF c \in {"id", "reference"}
          THEN (IF l > 0 THEN left.rows[l][c] ELSE right.rows[r][c])
     ELSE IF c = "amount_excel" THEN (IF l > 0 THEN left.rows[l]["amount"] ELSE NaN)
     ELSE IF c = "amount_db" THEN (IF r > 0 THEN right.rows[r]["amount"] ELSE NaN)
     ELSE IF c \in left.columns THEN (IF l > 0 THEN left.rows[l][c] ELSE NaN)
     ELSE (IF r > 0 THEN right.rows[r][c] ELSE NaN)]

\* merge refuses a frame that already has a column named like the indicator
MergeRaises(left, right) == "_merge" \in left.columns \cup right.columns

\* df_excel.merge(df_db, on=["id", "reference"], suffixes=("_excel", "_db"),
\*                how="outer", indicator=True)
merge(left, right) ==
  LET ix == JoinIndexers(JoinKeys(left.rows, right.rows), left.rows, right.rows)
  IN [n \in 1..Len(ix) |->
        [li |-> ix[n][1], ri |-> ix[n][2], row |-> MergedRow(left, right, ix[n][1], ix[n][2])]]

\* == on two amount cells: a missing amount equals nothing
AmountEq(a, b) == a # NaN /\ b # NaN /\ a = b

IsBoth(m) == m.row["_merge"] = "both"

SetColumn(rows, c, v) ==
  [i \in 1..Len(rows) |->
     [rows[i] EXCEPT !.row = [x \in DOMAIN rows[i].row \cup {c} |->
                                IF x = c THEN v ELSE rows[i].row[x]]]]

DropColumn(rows, c) ==
  [i \in 1..Len(rows) |-> [rows[i] EXCEPT !.row = Restrict(rows[i].row, DOMAIN rows[i].row \ {c})]]

\* lines 117-118
Mismatches(mg) ==
  SetColumn(SelectSeq(mg, LAMBDA m : IsBoth(m) /\ ~AmountEq(m.row["amount_excel"], m.row["amount_db"])),
            "Mismatch Reason", "Amount Mismatch")

\* mutant: the two one-sided tags swapped
OnlyInExcel_swapped(mg) ==
  SetColumn(SelectSeq(mg, LAMBDA m : m.row["_merge"] = "right_only"), "Mismatch Reason", "Only in Excel")

\* lines 122-123
OnlyInExcel(mg) ==
  SetColumn(SelectSeq(mg, LAMBDA m : m.row["_merge"] = "left_only"), "Mismatch Reason", "Only in Excel")

\* lines 124-125
OnlyInDb(mg) ==
  SetColumn(SelectSeq(mg, LAMBDA m : m.row["_merge"] = "right_only"), "Mismatch Reason", "Only in DB")

\* mutant: the one-sided rows concatenated in the other order
Unreconciled_reordered(mg) == DropColumn(Mismatches(mg) \o OnlyInDb(mg) \o OnlyInExcel(mg), "_merge")

\* lines 129-130, 135
Unreconciled(mg) == DropColumn(Mismatches(mg) \o OnlyInExcel(mg) \o OnlyInDb(mg), "_merge")

\* mutant: the amounts are not compared
Reconciled_noAmount(mg) == SelectSeq(mg, LAMBDA m : IsBoth(m))

\* line 134
Reconciled(mg) ==
  SelectSeq(mg, LAMBDA m : IsBoth(m) /\ AmountEq(m.row["amount_excel"], m.row["amount_db"]))

\* lines 99-153
Reconcile(t) ==
  /\ pc[t] = "reconcile"
  /\ IF ~(REQUIRED_COLUMNS \subseteq df_excel[t].columns)
     THEN /\ Respond(t, Error(400, "Invalid Excel format. Expected columns: id, reference, amount"))
          /\ UNCHANGED <<df_excel, merged>>
     ELSE LET left == KeepRequired(df_excel[t])
              right == DataFrame(db_data[t].records)
          IN /\ df_excel' = [df_excel EXCEPT ![t] = left]
             /\ IF MergeRaises(left, right)
                THEN /\ Respond(t, Error(500, "An error occurred during reconciliation"))
                     /\ UNCHANGED merged
                ELSE LET mg == merge(left, right)
                     IN /\ merged' = [merged EXCEPT ![t] = mg]
                        /\ Respond(t, [NoResponse EXCEPT !.status = 200,
                                                         !.reconciled = Reconciled(mg),
                                                         !.unreconciled = Unreconciled(mg)])
  /\ fs' = cleanup(fs, tmpdir[t])
  /\ UNCHANGED <<file, db_data, tmpdir>>

Next ==
  \E t \in Threads :
    Receive(t) \/ ParseDb(t) \/ SaveFile(t) \/ ReadExcel(t) \/ Reconcile(t)

Spec == Init /\ [][Next]_vars

(* -------------------- several requests in parallel -------------------- *)
\* the requests the threads of SpecConc serve
ConcFiles ==
  { Sheet(REQUIRED_COLUMNS \cup {"note"}, <<r>>) : r \in {x \in ExcelRows : x.id = 1 /\ x.reference = 1} }
  \cup { [Sheet(REQUIRED_COLUMNS, <<>>) EXCEPT !.valid = FALSE] }

ConcDbData ==
  { [kind |-> "list", records |-> <<r>>] :
      r \in {x \in DbRecords : REQUIRED_COLUMNS \subseteq DOMAIN x /\ x.id = 1 /\ "_merge" \notin DOMAIN x} }

InitConc ==
  /\ pc = [t \in Threads |-> "start"]
  /\ file \in [Threads -> ConcFiles]
  /\ db_data \in [Threads -> ConcDbData]
  /\ tmpdir = [t \in Threads |-> 0]
  /\ fs = << >>
  /\ df_excel = [t \in Threads |-> NoFrame]
  /\ merged = [t \in Threads |-> <<>>]
  /\ response = [t \in Threads |-> NoResponse]

SpecConc == InitConc /\ [][Next]_vars

(* ------------------------------ claims -------------------------------- *)
\* a request that was answered with a classification result
Served(t) == pc[t] = "done" /\ response[t].status = 200

\* the two input collections of a request, as uploaded
Xs(t) == file[t].rows
Ys(t) == db_data[t].records

Field(rec, c) == IF c \in DOMAIN rec THEN rec[c] ELSE NaN
InKey(rec) == <<Field(rec, "id"), Field(rec, "reference")>>

\* the output rows of a request, reconciled first
Out(t) == response[t].reconciled \o response[t].unreconciled
Category(t, n) ==
  IF n <= Len(response[t].reconciled) THEN "Reconciled" ELSE Out(t)[n].row["Mismatch Reason"]

RowsOfX(t, i) == { n \in 1..Len(Out(t)) : Out(t)[n].li = i }
RowsOfY(t, j) == { n \in 1..Len(Out(t)) : Out(t)[n].ri = j }
MatesOfX(t, i) == { j \in 1..Len(Ys(t)) : InKey(Ys(t)[j]) = InKey(Xs(t)[i]) }
MatesOfY(t, j) == { i \in 1..Len(Xs(t)) : InKey(Xs(t)[i]) = InKey(Ys(t)[j]) }
AtLeastOne(n) == IF n = 0 THEN 1 ELSE n

\* C1 as stated: every input record, duplicate keys included, is in exactly
\* one output row (so in exactly one category, once).
C1_ExactlyOnce ==
  \A t \in Threads : Served(t) =>
    /\ \A i \in 1..Len(Xs(t)) : Cardinality(RowsOfX(t, i)) = 1
    /\ \A j \in 1..Len(Ys(t)) : Cardinality(RowsOfY(t, j)) = 1

\* C1 amended: no input record is dropped; a record is in one output row per
\* record of the other collection that shares its key, and in exactly one
\* row when at most one record of the other collection shares its key.
C1_NoneDropped ==
  \A t \in Threads : Served(t) =>
    /\ \A i \in 1..Len(Xs(t)) :
         Cardinality(RowsOfX(t, i)) = AtLeastOne(Cardinality(MatesOfX(t, i)))
    /\ \A j \in 1..Len(Ys(t)) :
         Cardinality(RowsOfY(t, j)) = AtLeastOne(Cardinality(MatesOfY(t, j)))
    /\ \A n \in 1..Len(Out(t)) : Out(t)[n].li > 0 \/ Out(t)[n].ri > 0

C1_Witness ==
  \E t \in Threads : Served(t) /\
    /\ \E i \in 1..Len(Xs(t)) :
         /\ Cardinality(MatesOfX(t, i)) = 2
         /\ \E n1, n2 \in RowsOfX(t, i) : Category(t, n1) = "Reconciled" /\ Category(t, n2) = "Amount Mismatch"
    /\ \E i \in 1..Len(Xs(t)) : MatesOfX(t, i) = {} /\ Cardinality(RowsOfX(t, i)) = 1

\* the places of a pairing (workbook row i, database record j) in a sequence
PlacesIn(rows, i, j) == { n \in 1..Len(rows) : rows[n].li = i /\ rows[n].ri = j }
InAmountEq(t, i, j) ==
  LET a == Field(Xs(t)[i], "amount")  b == Field(Ys(t)[j], "amount")
  IN a # NaN /\ b # NaN /\ a = b

\* C2: a pairing of two records with the same key is once in reconciled and
\* not in unreconciled when the amounts are equal, else once in unreconciled,
\* tagged Amount Mismatch, and not in reconciled; reconciled holds nothing else.
C2_BothRowsPartitioned ==
  \A t \in Threads : Served(t) =>
    /\ \A i \in 1..Len(Xs(t)) : \A j \in MatesOfX(t, i) :
         LET inRec == PlacesIn(response[t].reconciled, i, j)
             inUnrec == PlacesIn(response[t].unreconciled, i, j)
         IN IF InAmountEq(t, i, j)
            THEN Cardinality(inRec) = 1 /\ inUnrec = {}
            ELSE /\ inRec = {} /\ Cardinality(inUnrec) = 1
                 /\ \A n \in inUnrec :
                      response[t].unreconciled[n].row["Mismatch Reason"] = "Amount Mismatch"
    /\ \A n \in 1..Len(response[t].reconciled) :
         LET m == response[t].reconciled[n]
         IN m.li > 0 /\ m.ri > 0 /\ m.row["_merge"] = "both" /\ InAmountEq(t, m.li, m.ri)

C2_Witness ==
  \E t \in Threads : Served(t) /\
    \E i1, i2 \in 1..Len(Xs(t)) : \E j1 \in MatesOfX(t, i1), j2 \in MatesOfX(t, i2) :
      /\ InAmountEq(t, i1, j1) /\ PlacesIn(response[t].reconciled, i1, j1) # {}
      /\ ~InAmountEq(t, i2, j2) /\ PlacesIn(response[t].unreconciled, i2, j2) # {}

\* C3: a record whose key only the workbook has is in the output, and only
\* as an unreconciled row tagged Only in Excel; a record whose key only
\* db_data has, only as one tagged Only in DB; an empty workbook gives no
\* reconciled row and every database record tagged Only in DB.
C3_SymmetryOfAbsence ==
  \A t \in Threads : Served(t) =>
    /\ \A i \in 1..Len(Xs(t)) : MatesOfX(t, i) = {} =>
         /\ RowsOfX(t, i) # {}
         /\ \A n \in RowsOfX(t, i) : Category(t, n) = "Only in Excel"
    /\ \A j \in 1..Len(Ys(t)) : MatesOfY(t, j) = {} =>
         /\ RowsOfY(t, j) # {}
         /\ \A n \in RowsOfY(t, j) : Category(t, n) = "Only in DB"
    /\ (Xs(t) = <<>> /\ Ys(t) # <<>>) =>
         /\ response[t].reconciled = <<>>
         /\ \A j \in 1..Len(Ys(t)) : RowsOfY(t, j) # {}
         /\ \A n \in 1..Len(Out(t)) : Category(t, n) = "Only in DB"

C3_Witness ==
  \E t \in Threads : Served(t) /\
    /\ \E i \in 1..Len(Xs(t)) : MatesOfX(t, i) = {} /\ RowsOfX(t, i) # {}
    /\ \E j \in 1..Len(Ys(t)) : MatesOfY(t, j) = {} /\ RowsOfY(t, j) # {}

\* every key a record can carry, present in the collections or not
KeyValues == {1, 2, 3, NaN}
AllKeys == KeyValues \X KeyValues
JoinRows(t, k, ind) ==
  { n \in 1..Len(merged[t]) : KeyOf(merged[t][n].row) = k /\ merged[t][n].row["_merge"] = ind }
CountX(t, k) == Cardinality({ i \in 1..Len(Xs(t)) : InKey(Xs(t)[i]) = k })
CountY(t, k) == Cardinality({ j \in 1..Len(Ys(t)) : InKey(Ys(t)[j]) = k })

\* C4: for a key carried by m workbook rows and n database records the join
\* has m*n both rows (one per pairing) when m > 0 and n > 0, m left_only
\* rows when n = 0, n right_only rows when m = 0, and no other row.
C4_FullOuterJoin ==
  \A t \in Threads : Served(t) =>
    \A k \in AllKeys :
      LET m == CountX(t, k)  n == CountY(t, k)
      IN /\ Cardinality(JoinRows(t, k, "both")) = m * n
         /\ Cardinality(JoinRows(t, k, "left_only")) = (IF n = 0 THEN m ELSE 0)
         /\ Cardinality(JoinRows(t, k, "right_only")) = (IF m = 0 THEN n ELSE 0)
         /\ \A i \in 1..Len(Xs(t)), j \in 1..Len(Ys(t)) :
              (InKey(Xs(t)[i]) = k /\ InKey(Ys(t)[j]) = k) =>
                Cardinality(PlacesIn(merged[t], i, j)) = 1

C4_Witness ==
  \E t \in Threads : Served(t) /\
    \E k \in AllKeys : CountX(t, k) = 2 /\ CountY(t, k) = 2
                       /\ Cardinality(JoinRows(t, k, "both")) = 4
\* a record of the request lacks a mandatory value: a database record after
\* the first lacks a field, or a workbook row has an empty mandatory cell
MissingMandatory(t) ==
  \/ \E j \in 2..Len(Ys(t)) : \E c \in REQUIRED_COLUMNS : Field(Ys(t)[j], c) = NaN
  \/ \E i \in 1..Len(Xs(t)) : \E c \in REQUIRED_COLUMNS : Field(Xs(t)[i], c) = NaN

\* C5 as stated: a request with such a record is answered with an error, no
\* join is performed and no classification result is returned.
C5_SchemaErrorBeforeJoin ==
  \A t \in Threads :
    (pc[t] = "done" /\ file[t].present /\ db_data[t].kind = "list" /\ MissingMandatory(t)) =>
      /\ response[t].status # 200
      /\ merged[t] = <<>>
      /\ response[t].reconciled = <<>> /\ response[t].unreconciled = <<>>

\* C6 as stated: db_data that parses to an empty list is answered like the
\* other validation errors (a handled 400 with a description), without a join.
C6_EmptyDbTypedError ==
  \A t \in Threads :
    (pc[t] = "done" /\ file[t].present /\ db_data[t].kind = "list" /\ db_data[t].records = <<>>) =>
      /\ response[t].handled
      /\ response[t].status = 400
      /\ response[t].error # ""
      /\ merged[t] = <<>>

ReasonRank(r) == CASE r = "Amount Mismatch" -> 1 [] r = "Only in Excel" -> 2 [] r = "Only in DB" -> 3
\* the category the claims give a join row
JoinCategory(t, m) ==
  IF m.li > 0 /\ m.ri > 0
  THEN (IF InAmountEq(t, m.li, m.ri) THEN "Reconciled" ELSE "Amount Mismatch")
  ELSE IF m.li > 0 THEN "Only in Excel" ELSE "Only in DB"

\* C7: unreconciled is the Amount Mismatch rows, then the Only in Excel
\* rows, then the Only in DB rows: no row of a later category precedes one
\* of an earlier, and every join row of the three categories is there once,
\* with its cells, and nothing else is.
C7_UnreconciledOrder ==
  \A t \in Threads : Served(t) =>
    LET u == response[t].unreconciled
        rest == { n \in 1..Len(merged[t]) : JoinCategory(t, merged[t][n]) # "Reconciled" }
    IN /\ \A a, b \in 1..Len(u) :
            a < b => ReasonRank(u[a].row["Mismatch Reason"]) <= ReasonRank(u[b].row["Mismatch Reason"])
       /\ Len(u) = Cardinality(rest)
       /\ \A n \in rest :
            LET m == merged[t][n]
            IN /\ Cardinality(PlacesIn(u, m.li, m.ri)) = 1
               /\ \A a \in PlacesIn(u, m.li, m.ri) :
                    /\ u[a].row["Mismatch Reason"] = JoinCategory(t, m)
                    /\ \A c \in DOMAIN m.row \ {"_merge"} : c \in DOMAIN u[a].row /\ u[a].row[c] = m.row[c]

C7_Witness ==
  \E t \in Threads : Served(t) /\
    \A r \in {"Amount Mismatch", "Only in Excel", "Only in DB"} :
      \E a \in 1..Len(response[t].unreconciled) : response[t].unreconciled[a].row["Mismatch Reason"] = r

\* the fields of a record beyond the mandatory three
Extras(rec) == DOMAIN rec \ REQUIRED_COLUMNS

DbPassThrough(t) ==
  \A j \in 1..Len(Ys(t)) : \A f \in Extras(Ys(t)[j]) : \A n \in RowsOfY(t, j) :
    f \in DOMAIN Out(t)[n].row /\ Out(t)[n].row[f] = Ys(t)[j][f]

\* C8 as stated: every additional field of a record of either collection is,
\* with its value, in every output row derived from the record.
C8_PassThroughBoth ==
  \A t \in Threads : Served(t) =>
    /\ DbPassThrough(t)
    /\ \A i \in 1..Len(Xs(t)) : \A f \in Extras(Xs(t)[i]) : \A n \in RowsOfX(t, i) :
         f \in DOMAIN Out(t)[n].row /\ Out(t)[n].row[f] = Xs(t)[i][f]

\* C8 amended: the additional fields of a database record are, with their
\* values, in every output row derived from it; the additional fields of the
\* workbook rows are discarded: an output column of that name holds the
\* database record's value (NaN when the row has no database record).
C8_PassThroughDbOnly ==
  \A t \in Threads : Served(t) =>
    /\ DbPassThrough(t)
    /\ \A n \in 1..Len(Out(t)) : \A f \in file[t].columns \ REQUIRED_COLUMNS :
         f \in DOMAIN Out(t)[n].row =>
           /\ \E j \in 1..Len(Ys(t)) : f \in DOMAIN Ys(t)[j]
           /\ Out(t)[n].row[f] = (IF Out(t)[n].ri > 0 THEN Field(Ys(t)[Out(t)[n].ri], f) ELSE NaN)

C8_Witness ==
  \E t \in Threads : Served(t) /\
    /\ \E j \in 1..Len(Ys(t)) : Extras(Ys(t)[j]) # {} /\ RowsOfY(t, j) # {}
    /\ \E i \in 1..Len(Xs(t)) : Extras(Xs(t)[i]) # {} /\
         \E n \in RowsOfX(t, i) : Out(t)[n].ri = 0 /\ "note" \in DOMAIN Out(t)[n].row

\* the response of a request that is served alone
Alone(f, d) ==
  IF ~f.present THEN Error(400, "No file uploaded")
  ELSE IF d.kind = "none" THEN Error(400, "Missing db_data. Expected JSON format.")
  ELSE IF d.kind = "badjson" THEN Error(400, "Invalid JSON format for db_data")
  ELSE IF d.records = <<>> THEN Uncaught("IndexError")
  ELSE IF ~(REQUIRED_COLUMNS \subseteq DOMAIN d.records[1])
       THEN Error(400, "Invalid DB data format. Expected columns: id, reference, amount")
  ELSE IF f.ext \notin FILE_ENGINES THEN Error(400, "Unsupported file format")
  ELSE IF ~f.valid THEN Error(400, "The file is not a valid Excel file or is corrupted.")
  ELSE IF ~(REQUIRED_COLUMNS \subseteq f.columns)
       THEN Error(400, "Invalid Excel format. Expected columns: id, reference, amount")
  ELSE LET left == KeepRequired([columns |-> f.columns, rows |-> f.rows])
           right == DataFrame(d.records)
       IN IF MergeRaises(left, right) THEN Error(500, "An error occurred during reconciliation")
          ELSE [NoResponse EXCEPT !.status = 200,
                                  !.reconciled = Reconciled(merge(left, right)),
                                  !.unreconciled = Unreconciled(merge(left, right))]

\* C9: whatever the interleaving, a request's uploaded file is in a directory
\* of its own and is what the request saved, the frame it parsed is its own
\* workbook, and its response is the one it gets when served alone.
C9_RequestsIndependent ==
  \A t \in Threads :
    /\ pc[t] = "read" => (tmpdir[t] \in DOMAIN fs /\ fs[tmpdir[t]] = file[t])
    /\ pc[t] = "reconcile" => df_excel[t] = [columns |-> file[t].columns, rows |-> file[t].rows]
    /\ pc[t] = "done" => response[t] = Alone(file[t], db_data[t])
    /\ \A u \in Threads \ {t} :
         (pc[t] \in {"read", "reconcile"} /\ pc[u] \in {"read", "reconcile"}) => tmpdir[t] # tmpdir[u]

C9_Witness ==
  \E t, u \in Threads :
    /\ t # u /\ file[t] # file[u]
    /\ Served(t) /\ response[t].unreconciled # <<>>
    /\ pc[u] = "reconcile" /\ tmpdir[u] \in DOMAIN fs

\* the key of the input record(s) an output row derives from
DerivedKey(t, m) == IF m.li > 0 THEN InKey(Xs(t)[m.li]) ELSE InKey(Ys(t)[m.ri])
Ascending(a, b) == a # NaN /\ (b = NaN \/ a < b)
KeyAscending(k1, k2) == Ascending(k1[1], k2[1]) \/ (k1[1] = k2[1] /\ Ascending(k1[2], k2[2]))
InputOrder(m1, m2) == m1.li < m2.li \/ (m1.li = m2.li /\ m1.ri < m2.ri)

\* C10 as stated: within each category the rows are in the order in which
\* the input records they derive from were iterated.
C10_InputOrder ==
  \A t \in Threads : Served(t) =>
    \A a, b \in 1..Len(Out(t)) :
      (a < b /\ Category(t, a) = Category(t, b)) => InputOrder(Out(t)[a], Out(t)[b])

\* C10 amended: within each category the rows are in ascending order of the
\* key (id, reference), missing values last, and rows of the same key in the
\* order of the input records they derive from (workbook position, then
\* database position); so the two sequences are fixed by the two inputs.
C10_KeyOrder ==
  \A t \in Threads : Served(t) =>
    \A a, b \in 1..Len(Out(t)) :
      (a < b /\ Category(t, a) = Category(t, b)) =>
        \/ KeyAscending(DerivedKey(t, Out(t)[a]), DerivedKey(t, Out(t)[b]))
        \/ /\ DerivedKey(t, Out(t)[a]) = DerivedKey(t, Out(t)[b])
           /\ InputOrder(Out(t)[a], Out(t)[b])

C10_Witness ==
  \E t \in Threads : Served(t) /\
    \E a, b \in 1..Len(Out(t)) :
      /\ a < b /\ Category(t, a) = Category(t, b)
      /\ Out(t)[b].li > 0 /\ Out(t)[b].li < Out(t)[a].li
====
